---- MODULE Spec2Model ----
(***************************************************************************)
(* Model of the karawang-tourism-scraper pipeline:                         *)
(*   - scroll_reviews_panel   (gmaps_reviews_scraper.py)  the harvester    *)
(*   - extract_reviews_with_js (gmaps_reviews_scraper.py) the extractor    *)
(*   - scrape_all_reviews, scrape_place_data, save_to_json,                *)
(*     sanitize_filename (gmaps_reviews_scraper.py)       the batch        *)
(*   - scroll_results_panel   (gmaps_scraper.py)          the results feed *)
(*   - clean_text, anonymize_user, convert_relative_time,                  *)
(*     deduplicate_reviews, stratified_sample_reviews                      *)
(*     (process_gmaps_data.py)                                             *)
(* Each component has its own specification over the shared variables;     *)
(* the variables of the components a specification does not run stay at    *)
(* their idle values.                                                      *)
(***************************************************************************)
EXTENDS Integers, Sequences, FiniteSets, TLC

VARIABLES
    \* ---- the reviews panel (environment of the harvester) ----
    loaded,           \* number of div[data-review-id] cards in the DOM
    exhausted,        \* TRUE once the place has no more reviews to load
    \* ---- scroll_reviews_panel ----
    max_reviews,      \* parameter max_reviews
    last_card_count,  \* local last_card_count
    scroll_attempts,  \* local scroll_attempts
    current_count,    \* local current_count (the value returned)
    nudges,           \* page interactions issued by the latest iteration
    no_growth_reads,  \* reads in a row that found the count of the read before
    h_pc,             \* "idle" | "loop" | "done"
    \* ---- stratified_sample_reviews ----
    reviews,          \* parameter reviews: the 'rating' value of each review
    max_count,        \* parameter max_count
    star,             \* loop variable of "for star in range(1, 6)"
    sampled_reviews,  \* local sampled_reviews (reviews named by position)
    overflow_pool,    \* local overflow_pool (reviews named by position)
    s_result,         \* the list returned (reviews named by position)
    s_pc,             \* "idle" | "start" | "sample" | "fill" | "shuffle" | "done"
    \* ---- datetime.now() ----
    now,              \* the clock: hours since 0001-01-01 00:00 minus 24
    \* ---- convert_relative_time ----
    t_text,           \* parameter text
    t_result,         \* the string returned
    t_pc,             \* "idle" | "start" | "done"
    \* ---- deduplicate_reviews ----
    dicts,            \* the review dicts of the input file, by position
    raw_reviews,      \* parameter raw_reviews: a list of references to dicts
    d_next,           \* position of the for loop in raw_reviews
    unique_reviews,   \* local unique_reviews: a list of references to dicts
    seen_signatures,  \* local seen_signatures
    d_run,            \* 1: the call on the input; 2: the call on its own output
    first_unique,     \* what the first call returned
    first_dicts,      \* the dicts as the first call left them
    d_pc,             \* "idle" | "loop" | "done"
    \* ---- extract_reviews_with_js ----
    cards,            \* the div[data-review-id] cards of the DOM, in order
    e_next,           \* position of cards.forEach
    data,             \* the JavaScript array data
    e_result,         \* the list returned
    e_pc,             \* "idle" | "each" | "done"
    \* ---- anonymize_user, called on one name and then on another ----
    user_names,       \* the user_name argument of each call
    user_ids,         \* what the calls made so far returned
    a_pc,             \* "idle" | "call" | "done"
    \* ---- scrape_all_reviews ----
    places_df,        \* the place_name column of INPUT_FILE, in row order
    output_files,     \* OUTPUT_DIR: file name (without .json) -> content
    b_next,           \* position of "for index, row in places_df.iterrows()"
    b_run,            \* 1: the first run of the script; 2: the run after it
    b_log,            \* per row reached in this run: "skipped" or what the
                      \* page and the disk did while the place was scraped
    b_existed,        \* per row reached: os.path.exists(output_json)
    b_gotos,          \* the rows page.goto was called for in this run
    b_before,         \* b_log of the run before
    b_pc,             \* "idle" | "loop" | "done" | "aborted"
    \* ---- the search-results feed (environment of scroll_results_panel) ----
    feed_places,      \* number of a.hfpxzc links in the DOM
    \* ---- scroll_results_panel ----
    f_last_count,     \* local last_count
    f_scroll_attempts, \* local scroll_attempts
    f_current_count,  \* local current_count (the value returned)
    f_end_of_list,    \* local end_of_list
    f_read_before,    \* the count read by the iteration before the latest
    f_pc              \* "idle" | "loop" | "done"

harvestVars == <<loaded, exhausted, max_reviews, last_card_count,
                 scroll_attempts, current_count, nudges, no_growth_reads,
                 h_pc>>

sampleVars == <<reviews, max_count, star, sampled_reviews, overflow_pool,
                s_result, s_pc>>

timeVars == <<t_text, t_result, t_pc>>

dedupVars == <<dicts, raw_reviews, d_next, unique_reviews, seen_signatures,
               d_run, first_unique, first_dicts, d_pc>>

extractVars == <<cards, e_next, data, e_result, e_pc>>

anonVars == <<user_names, user_ids, a_pc>>

batchVars == <<places_df, output_files, b_next, b_run, b_log, b_existed,
               b_gotos, b_before, b_pc>>

feedVars == <<feed_places, f_last_count, f_scroll_attempts, f_current_count,
              f_end_of_list, f_read_before, f_pc>>

vars == <<harvestVars, sampleVars, now, timeVars, dedupVars, extractVars,
          anonVars, batchVars, feedVars>>

\* the variables each component leaves alone
notHarvest == <<sampleVars, now, timeVars, dedupVars, extractVars, anonVars,
                batchVars, feedVars>>
notSample == <<harvestVars, now, timeVars, dedupVars, extractVars, anonVars,
               batchVars, feedVars>>
notTime == <<harvestVars, sampleVars, dedupVars, extractVars, anonVars,
             batchVars, feedVars>>
notDedup == <<harvestVars, sampleVars, timeVars, extractVars, anonVars,
              batchVars, feedVars>>
notExtract == <<loaded, exhausted, last_card_count, scroll_attempts,
                current_count, nudges, no_growth_reads, h_pc, sampleVars,
                now, timeVars, dedupVars, anonVars, batchVars, feedVars>>
notAnon == <<harvestVars, sampleVars, now, timeVars, dedupVars, extractVars,
             batchVars, feedVars>>
notBatch == <<harvestVars, sampleVars, now, timeVars, dedupVars, extractVars,
              anonVars, feedVars>>
notFeed == <<harvestVars, sampleVars, now, timeVars, dedupVars, extractVars,
             anonVars, batchVars>>

(***************************************************************************)
(* Bounds of the model.                                                    *)
(***************************************************************************)
MaxTarget == 2     \* max_reviews is drawn from 0..MaxTarget
MaxGrow == 2       \* cards one nudge (or the initial render) can add
MaxLen == 3        \* every review list of up to MaxLen reviews is sampled
MaxCount == 6      \* max_count is drawn from 0..MaxCount
MaxTicks == 2      \* hours the clock can advance past its first reading
MaxRaw == 3        \* every list of up to MaxRaw raw reviews is deduplicated
MaxCards == 4      \* every DOM of up to MaxCards cards is extracted

Min(a, b) == IF a <= b THEN a ELSE b

\* s[:n] and s[n:] of Python, for n >= 0
Prefix(s, n) == SubSeq(s, 1, Min(n, Len(s)))

\* (mutation of Suffix: the whole list instead of its tail)
SuffixWhole(s, n) == s

Suffix(s, n) == SubSeq(s, n + 1, Len(s))

\* the positions 1..n as a list
Positions(n) == [i \in 1..n |-> i]

\* all the orders of the elements of a finite set
RECURSIVE Orders(_)
Orders(S) ==
    IF S = {} THEN {<<>>}
    ELSE UNION {{<<x>> \o p : p \in Orders(S \ {x})} : x \in S}

IdleSample ==
    /\ reviews = <<>>
    /\ max_count = 0
    /\ star = 0
    /\ sampled_reviews = <<>>
    /\ overflow_pool = <<>>
    /\ s_result = <<>>
    /\ s_pc = "idle"

IdleTime ==
    /\ t_text = <<>>
    /\ t_result = <<>>
    /\ t_pc = "idle"

\* the first reading of the clock: 2024-01-10 23:00 (date ordinal 738895)
FirstNow == 738895 * 24 + 23

IdleClock == now = FirstNow

IdleExtract ==
    /\ cards = <<>>
    /\ e_next = 0
    /\ data = <<>>
    /\ e_result = <<>>
    /\ e_pc = "idle"

IdleAnon ==
    /\ user_names = <<>>
    /\ user_ids = <<>>
    /\ a_pc = "idle"

IdleBatch ==
    /\ places_df = <<>>
    /\ output_files = <<>>
    /\ b_next = 0
    /\ b_run = 0
    /\ b_log = <<>>
    /\ b_existed = <<>>
    /\ b_gotos = <<>>
    /\ b_before = <<>>
    /\ b_pc = "idle"

IdleFeed ==
    /\ feed_places = 0
    /\ f_last_count = 0
    /\ f_scroll_attempts = 0
    /\ f_current_count = 0
    /\ f_end_of_list = FALSE
    /\ f_read_before = 0
    /\ f_pc = "idle"

\* anonymize_user, scrape_all_reviews and scroll_results_panel are not run
IdleOthers == IdleAnon /\ IdleBatch /\ IdleFeed

IdleDedup ==
    /\ dicts = <<>>
    /\ raw_reviews = <<>>
    /\ d_next = 0
    /\ unique_reviews = <<>>
    /\ seen_signatures = {}
    /\ d_run = 0
    /\ first_unique = <<>>
    /\ first_dicts = <<>>
    /\ d_pc = "idle"

(***************************************************************************)
(* scroll_reviews_panel                                                    *)
(***************************************************************************)
SCROLL_EXTRA_BUFFER == 100
EscalateAfter == 3
GiveUpAfter == 10

\* target_count = max_reviews + SCROLL_EXTRA_BUFFER
target_count == max_reviews + SCROLL_EXTRA_BUFFER

\* The lazily rendered list answers a nudge with zero or more new cards;
\* an exhausted list never grows again.
Grown(n) == IF exhausted THEN {n} ELSE n..(n + MaxGrow)

\* The reads in a row, this one included, that found the count the read
\* before them had found (before the first read the count is 0); the reads
\* are counted up to GiveUpAfter + 1.
NoGrowthRun(read) ==
    IF read = current_count
    THEN Min(no_growth_reads + 1, GiveUpAfter + 1)
    ELSE 0

\* (mutation of StallReset: the counter is left as it is)
StallKept(a) == a

\* scroll_attempts = 0 on a read that found a new count
StallReset(a) == 0

\* (mutation of StallBump: the counter is assigned instead of incremented)
StallBumpAssigned(a) == 1

\* scroll_attempts += 1 on a stalled read
StallBump(a) == a + 1

\* (mutation of StallNudges: the wheel is tried from the third stall on)
StallNudgesEager(a) ==
    IF a >= EscalateAfter THEN <<"End", "Wheel">> ELSE <<"End">>

\* the nudges of a stalled iteration: End, then the wheel once stalls > 3
StallNudges(a) == IF a > EscalateAfter THEN <<"End", "Wheel">> ELSE <<"End">>

\* (mutation of GiveUp: the loop ends on the tenth stall)
GiveUpAtCeiling(a) == a >= GiveUpAfter

\* (mutation of GiveUp: the loop ends on the third stall)
GiveUpBeforeEscalating(a) == a >= EscalateAfter

\* give up after max attempts
GiveUp(a) == a > GiveUpAfter

IdleHarvest ==
    /\ loaded = 0
    /\ exhausted = FALSE
    /\ max_reviews = 0
    /\ last_card_count = 0
    /\ scroll_attempts = 0
    /\ current_count = 0
    /\ nudges = <<>>
    /\ no_growth_reads = 0
    /\ h_pc = "idle"

InitHarvest ==
    /\ loaded \in 0..MaxGrow
    /\ exhausted \in BOOLEAN
    /\ max_reviews \in 0..MaxTarget
    /\ last_card_count = 0
    /\ scroll_attempts = 0
    /\ current_count = 0
    /\ nudges = <<>>
    /\ no_growth_reads = 0
    /\ h_pc = "loop"
    /\ IdleSample
    /\ IdleClock
    /\ IdleTime
    /\ IdleDedup
    /\ IdleExtract
    /\ IdleOthers

\* The list runs out of reviews (environment).
SourceExhausts ==
    /\ h_pc = "loop"
    /\ ~exhausted
    /\ exhausted' = TRUE
    /\ UNCHANGED <<loaded, max_reviews, last_card_count, scroll_attempts,
                   current_count, nudges, no_growth_reads, h_pc>>
    /\ UNCHANGED notHarvest

\* An iteration that reads current_count >= target_count: break.
ScrollReached ==
    /\ h_pc = "loop"
    /\ loaded >= target_count
    /\ current_count' = loaded
    /\ no_growth_reads' = NoGrowthRun(loaded)
    /\ nudges' = <<>>
    /\ h_pc' = "done"
    /\ UNCHANGED <<loaded, exhausted, max_reviews, last_card_count,
                   scroll_attempts>>
    /\ UNCHANGED notHarvest

\* An iteration that reads the same count as the last one.
ScrollStuck ==
    /\ h_pc = "loop"
    /\ loaded < target_count
    /\ loaded = last_card_count
    /\ current_count' = loaded
    /\ no_growth_reads' = NoGrowthRun(loaded)
    /\ scroll_attempts' = StallBump(scroll_attempts)
    /\ nudges' = StallNudges(scroll_attempts')
    /\ loaded' \in Grown(loaded)
    /\ h_pc' = IF GiveUp(scroll_attempts') THEN "done" ELSE "loop"
    /\ UNCHANGED <<exhausted, max_reviews, last_card_count>>
    /\ UNCHANGED notHarvest

\* An iteration that reads a different count than the last one.
ScrollProgress ==
    /\ h_pc = "loop"
    /\ loaded < target_count
    /\ loaded # last_card_count
    /\ current_count' = loaded
    /\ no_growth_reads' = NoGrowthRun(loaded)
    /\ scroll_attempts' = StallReset(scroll_attempts)
    /\ last_card_count' = loaded
    /\ nudges' = <<"End">>
    /\ loaded' \in Grown(loaded)
    /\ h_pc' = "loop"
    /\ UNCHANGED <<exhausted, max_reviews>>
    /\ UNCHANGED notHarvest

ScrollIteration == ScrollReached \/ ScrollStuck \/ ScrollProgress

NextHarvest == SourceExhausts \/ ScrollIteration

SpecHarvest == InitHarvest /\ [][NextHarvest]_vars

\* The while loop keeps running: every iteration that can run, does.
FairHarvest == SpecHarvest /\ WF_vars(ScrollIteration)

(***************************************************************************)
(* stratified_sample_reviews                                               *)
(*                                                                         *)
(* A review is named by its position in the input list; reviews[i] is the  *)
(* value of its 'rating' field.  random.shuffle is a choice among all the  *)
(* orders of the list.                                                     *)
(***************************************************************************)
\* the 'rating' values of the input: star ratings, "no rating" (0) and a
\* value outside the buckets (a non-numeric rating ends in bucket 0 alike)
RawRatings == {0, 1, 5, 7}

\* longer inputs, for max_count // 5 >= 1
LongInputs ==
    { <<5, 5, 5, 5, 1, 1>>,
      <<1, 1, 2, 3, 7, 0>>,
      <<1, 2, 3, 4, 5, 5, 0>> }

SampleInputs ==
    UNION {[1..n -> RawRatings] : n \in 0..MaxLen} \cup LongInputs

\* rating = int(review.get('rating', 0)); if rating not in buckets: rating = 0
RatingOf(raw) == IF raw \in 0..5 THEN raw ELSE 0

\* buckets[r]: the reviews of rating r, in input order
buckets(r) ==
    SelectSeq(Positions(Len(reviews)), LAMBDA i : RatingOf(reviews[i]) = r)

\* (mutation of target_per_star: rounded up instead of down)
target_per_star_up == (max_count + 4) \div 5

\* target_per_star = max_count // 5
target_per_star == max_count \div 5

\* random.shuffle(s): s in one of its orders
Shuffle(s) == {[i \in 1..Len(s) |-> s[p[i]]] : p \in Orders(1..Len(s))}

\* (mutation of Taken: one review fewer than the target is taken)
TakenShort(b) == Prefix(b, target_per_star - 1)

\* taken = reviews_in_bucket[:target_per_star]
Taken(b) == Prefix(b, target_per_star)

\* overflow_pool.extend(more)
PoolExtended(pool, more) == pool \o more

\* (mutation of WithUnrated: the unrated reviews are left out of the pool)
WithoutUnrated(pool) == pool

\* overflow_pool.extend(buckets[0])
WithUnrated(pool) == pool \o buckets(0)

\* (mutation of Shortage: what is already sampled is not subtracted)
ShortageWhole(n) == max_count

\* shortage = max_count - len(sampled_reviews)
Shortage(n) == max_count - n

\* if len(reviews) <= max_count: return reviews
ReturnsAll == Len(reviews) <= max_count

InitSample ==
    /\ reviews \in SampleInputs
    /\ max_count \in 0..MaxCount
    /\ star = 0
    /\ sampled_reviews = <<>>
    /\ overflow_pool = <<>>
    /\ s_result = <<>>
    /\ s_pc = "start"
    /\ IdleHarvest
    /\ IdleClock
    /\ IdleTime
    /\ IdleDedup
    /\ IdleExtract
    /\ IdleOthers

\* len(reviews) <= max_count: the input list itself is returned
ReturnInput ==
    /\ s_pc = "start"
    /\ ReturnsAll
    /\ s_result' = Positions(Len(reviews))
    /\ s_pc' = "done"
    /\ UNCHANGED <<reviews, max_count, star, sampled_reviews, overflow_pool>>
    /\ UNCHANGED notSample

\* the reviews are grouped into buckets; the locals are initialised
GroupBuckets ==
    /\ s_pc = "start"
    /\ ~ReturnsAll
    /\ star' = 1
    /\ sampled_reviews' = <<>>
    /\ overflow_pool' = <<>>
    /\ s_pc' = "sample"
    /\ UNCHANGED <<reviews, max_count, s_result>>
    /\ UNCHANGED notSample

\* one iteration of "for star in range(1, 6)"
SampleBucket ==
    /\ s_pc = "sample"
    /\ \E reviews_in_bucket \in Shuffle(buckets(star)) :
        /\ sampled_reviews' = sampled_reviews \o Taken(reviews_in_bucket)
        /\ overflow_pool' =
              PoolExtended(overflow_pool,
                           Suffix(reviews_in_bucket, target_per_star))
    /\ star' = star + 1
    /\ s_pc' = IF star = 5 THEN "fill" ELSE "sample"
    /\ UNCHANGED <<reviews, max_count, s_result>>
    /\ UNCHANGED notSample

\* bucket 0 joins the pool; the shortage is filled from the shuffled pool
FillShortage ==
    /\ s_pc = "fill"
    /\ LET pool == WithUnrated(overflow_pool)
           shortage == Shortage(Len(sampled_reviews))
       IN  IF shortage > 0 /\ pool # <<>>
           THEN \E shuffled \in Shuffle(pool) :
                   /\ overflow_pool' = shuffled
                   /\ sampled_reviews' =
                         sampled_reviews \o Prefix(shuffled, shortage)
           ELSE /\ overflow_pool' = pool
                /\ UNCHANGED sampled_reviews
    /\ s_pc' = "shuffle"
    /\ UNCHANGED <<reviews, max_count, star, s_result>>
    /\ UNCHANGED notSample

\* random.shuffle(sampled_reviews); return sampled_reviews
ShuffleAndReturn ==
    /\ s_pc = "shuffle"
    /\ s_result' \in Shuffle(sampled_reviews)
    /\ star' = 0
    /\ sampled_reviews' = <<>>
    /\ overflow_pool' = <<>>
    /\ s_pc' = "done"
    /\ UNCHANGED <<reviews, max_count>>
    /\ UNCHANGED notSample

NextSample ==
    \/ ReturnInput
    \/ GroupBuckets
    \/ SampleBucket
    \/ FillShortage
    \/ ShuffleAndReturn

SpecSample == InitSample /\ [][NextSample]_vars

\* number of reviews of rating r in a list of positions / in the input
RatedIn(s, r) ==
    Cardinality({i \in 1..Len(s) : RatingOf(reviews[s[i]]) = r})
RatedInput(r) == RatedIn(Positions(Len(reviews)), r)

(***************************************************************************)
(* Strings.  A Python str is the list of its characters; None (a missing   *)
(* or null JSON value) is a value that is no str.  The non-ASCII artifact  *)
(* characters of clean_text are written with ASCII stand-ins:              *)
(*      "^" "~" "@"  for  U+00D3 U+00F3 U+00E4      "#" "+"  for  U+00AC   *)
(*      U+2020.                                                            *)
(***************************************************************************)
Chars(str) == [i \in 1..Len(str) |-> SubSeq(str, i, i)]

None == <<"None">>

\* characters matched by \s and removed by str.strip()
Whitespace == {" ", "\n", "\t"}

\* text.replace(pat, ""): the occurrences of pat are removed left to right
RECURSIVE Removed(_, _)
Removed(text, pat) ==
    IF pat = <<>> \/ Len(text) < Len(pat) THEN text
    ELSE IF SubSeq(text, 1, Len(pat)) = pat
         THEN Removed(SubSeq(text, Len(pat) + 1, Len(text)), pat)
         ELSE <<Head(text)>> \o Removed(Tail(text), pat)

RECURSIVE LStrip(_)
LStrip(text) ==
    IF text # <<>> /\ Head(text) \in Whitespace THEN LStrip(Tail(text))
    ELSE text

RECURSIVE RStrip(_)
RStrip(text) ==
    IF text # <<>> /\ text[Len(text)] \in Whitespace
    THEN RStrip(SubSeq(text, 1, Len(text) - 1))
    ELSE text

\* str.strip()
Strip(text) == RStrip(LStrip(text))

\* re.sub(r'\s+', ' ', text)
RECURSIVE Collapsed(_)
Collapsed(text) ==
    IF text = <<>> THEN <<>>
    ELSE IF Head(text) \in Whitespace
         THEN <<" ">> \o Collapsed(LStrip(text))
         ELSE <<Head(text)>> \o Collapsed(Tail(text))

\* str.lower(), on the capital letters the inputs use
LowerChar(c) ==
    CASE c = "A" -> "a" [] c = "B" -> "b" [] c = "D" -> "d"
      [] c = "H" -> "h" [] c = "J" -> "j" [] c = "T" -> "t"
      [] c = "I" -> "i" [] c = "N" -> "n" [] c = "S" -> "s"
      [] c = "U" -> "u"
      [] OTHER -> c

Lower(text) == [i \in 1..Len(text) |-> LowerChar(text[i])]

\* word in text
Contains(text, word) ==
    \E i \in 1..(Len(text) - Len(word) + 1) :
        SubSeq(text, i, i + Len(word) - 1) = word

(***************************************************************************)
(* clean_text                                                              *)
(***************************************************************************)
\* artifacts = [...]: two mojibake strings and three empty strings
artifacts == <<Chars("^~@"), Chars("#+"), <<>>, <<>>, <<>>>>

RECURSIVE WithoutArtifacts(_, _)
WithoutArtifacts(text, k) ==
    IF k > Len(artifacts) THEN text
    ELSE WithoutArtifacts(Removed(text, artifacts[k]), k + 1)

clean_text(text) ==
    IF text = None THEN <<>>
    ELSE Strip(Collapsed(WithoutArtifacts(text, 1)))

(***************************************************************************)
(* anonymize_user.  hashlib.md5(...).hexdigest()[:10] is kept opaque: the  *)
(* digest of a string is the string under an "md5" tag.                    *)
(***************************************************************************)
Md5Hex10(text) == <<"md5">> \o text

anonymize_user(user_name) ==
    IF user_name = None \/ user_name = <<>> THEN Chars("anonymous")
    ELSE Md5Hex10(Lower(Strip(user_name)))

\* the names anonymize_user is called on
AuthorNames ==
    { None, <<>>, Chars(" "), Chars("Budi"), Chars(" BUDI "), Chars("budi"),
      Chars("Budi Santoso"), Chars("BUDI  SANTOSO"), Chars("Ani"),
      Chars("\tani\n"), Chars("B udi") }

\* the guard "not isinstance(user_name, str) or not user_name"
Nameless(user_name) == user_name = None \/ user_name = <<>>

InitAnon ==
    /\ user_names \in [1..2 -> AuthorNames]
    /\ user_ids = <<>>
    /\ a_pc = "call"
    /\ IdleHarvest
    /\ IdleSample
    /\ IdleClock
    /\ IdleTime
    /\ IdleDedup
    /\ IdleExtract
    /\ IdleBatch
    /\ IdleFeed

\* lines 126-127: the call returns "anonymous"
AnonymizeNameless ==
    /\ a_pc = "call"
    /\ Nameless(user_names[Len(user_ids) + 1])
    /\ user_ids' = Append(user_ids, anonymize_user(user_names[Len(user_ids) + 1]))
    /\ a_pc' = IF Len(user_ids') = Len(user_names) THEN "done" ELSE "call"
    /\ UNCHANGED user_names
    /\ UNCHANGED notAnon

\* lines 129-132: the call returns the start of the digest
AnonymizeHashes ==
    /\ a_pc = "call"
    /\ ~Nameless(user_names[Len(user_ids) + 1])
    /\ user_ids' = Append(user_ids, anonymize_user(user_names[Len(user_ids) + 1]))
    /\ a_pc' = IF Len(user_ids') = Len(user_names) THEN "done" ELSE "call"
    /\ UNCHANGED user_names
    /\ UNCHANGED notAnon

NextAnon == AnonymizeNameless \/ AnonymizeHashes

SpecAnon == InitAnon /\ [][NextAnon]_vars

(***************************************************************************)
(* convert_relative_time                                                   *)
(***************************************************************************)
Digits == <<"0", "1", "2", "3", "4", "5", "6", "7", "8", "9">>

IsDigit(c) == \E d \in 1..10 : Digits[d] = c

DigitValue(c) == (CHOOSE d \in 1..10 : Digits[d] = c) - 1

\* the characters of text from its first digit on
RECURSIVE FromFirstDigit(_)
FromFirstDigit(text) ==
    IF text = <<>> \/ IsDigit(Head(text)) THEN text
    ELSE FromFirstDigit(Tail(text))

\* int() of the digits text starts with, after acc
RECURSIVE LeadingInt(_, _)
LeadingInt(text, acc) ==
    IF text = <<>> \/ ~IsDigit(Head(text)) THEN acc
    ELSE LeadingInt(Tail(text), 10 * acc + DigitValue(Head(text)))

\* match = re.search(r'(\d+)', text); int(match.group(1)) if match else 1
Magnitude(text) ==
    IF FromFirstDigit(text) = <<>> THEN 1
    ELSE LeadingInt(FromFirstDigit(text), 0)

\* text.lower().replace("diedit", "").strip()
Normalized(text) == Strip(Removed(Lower(text), Chars("diedit")))

HasWord(text, word) == Contains(text, Chars(word))

\* the if / elif chain: the timedelta, as <<unit, count of that unit>>
DeltaOf(text) ==
    IF HasWord(text, "menit") \/ HasWord(text, "detik")
          \/ HasWord(text, "baru saja")
    THEN <<"days", 0>>
    ELSE IF HasWord(text, "jam") THEN <<"hours", Magnitude(text)>>
    ELSE IF HasWord(text, "hari") THEN <<"days", Magnitude(text)>>
    ELSE IF HasWord(text, "minggu") THEN <<"days", 7 * Magnitude(text)>>
    ELSE IF HasWord(text, "bulan") THEN <<"days", 30 * Magnitude(text)>>
    ELSE IF HasWord(text, "tahun") THEN <<"days", 365 * Magnitude(text)>>
    ELSE <<"days", 0>>

\* the timedelta in hours
DeltaHours(delta) == IF delta[1] = "hours" THEN delta[2] ELSE 24 * delta[2]

\* current_time - delta raises OverflowError before 0001-01-01 (the
\* magnitudes of the model stay below the 999999999 days at which
\* timedelta(...) itself raises it)
Overflows(delta, clock) == clock - DeltaHours(delta) < 24

\* the date ordinal (0001-01-01 is 1) of a clock reading
OrdinalOf(clock) == clock \div 24

\* the decimal digits of n, padded with zeros to width w
RECURSIVE Padded(_, _)
Padded(n, w) ==
    IF w = 0 THEN <<>>
    ELSE Padded(n \div 10, w - 1) \o <<Digits[(n % 10) + 1]>>

\* strftime("%Y-%m-%d") of the date with the given ordinal
IsoDate(ordinal) ==
    LET z == ordinal + 305
        era == z \div 146097
        doe == z - era * 146097
        yoe == (doe - doe \div 1460 + doe \div 36524 - doe \div 146096)
                   \div 365
        doy == doe - (365 * yoe + yoe \div 4 - yoe \div 100)
        mp == (5 * doy + 2) \div 153
        d == doy - (153 * mp + 2) \div 5 + 1
        m == IF mp < 10 THEN mp + 3 ELSE mp - 9
        y == yoe + era * 400 + (IF m <= 2 THEN 1 ELSE 0)
    IN  Padded(y, 4) \o <<"-">> \o Padded(m, 2) \o <<"-">> \o Padded(d, 2)

\* past_date = current_time - delta; past_date.strftime("%Y-%m-%d")
Resolved(text, clock) ==
    IsoDate(OrdinalOf(clock - DeltaHours(DeltaOf(Normalized(text)))))

\* the guard "not isinstance(text, str) or not text"
Unusable(text) == text = None \/ text = <<>>

\* an exception inside the try block
Raises(text, clock) == Overflows(DeltaOf(Normalized(text)), clock)

convert_relative_time(text, clock) ==
    IF Unusable(text) THEN <<>>
    ELSE IF Raises(text, clock) THEN <<>>
    ELSE Resolved(text, clock)

\* the relative-time texts the resolver is given
TimeWords ==
    {"menit", "detik", "baru saja", "jam", "hari", "minggu", "bulan",
     "tahun", "gibberish", "kemarin", "days"}

TimeTexts ==
    {Chars(m \o w \o e) :
        m \in {"", "2 ", "3 ", "25 ", "Diedit 2 ", "3000 "},
        w \in TimeWords,
        e \in {"", " yang lalu"}}
    \cup {<<>>, None}

InitTime ==
    /\ t_text \in TimeTexts
    /\ now \in FirstNow..(FirstNow + MaxTicks)
    /\ t_result = <<>>
    /\ t_pc = "start"
    /\ IdleHarvest
    /\ IdleSample
    /\ IdleDedup
    /\ IdleExtract
    /\ IdleOthers

\* lines 153-154: no text
ConvertNothing ==
    /\ t_pc = "start"
    /\ Unusable(t_text)
    /\ t_result' = convert_relative_time(t_text, now)
    /\ t_pc' = "done"
    /\ UNCHANGED <<t_text, now>>
    /\ UNCHANGED notTime

\* lines 198-199: the try block raised
ConvertRaises ==
    /\ t_pc = "start"
    /\ ~Unusable(t_text)
    /\ Raises(t_text, now)
    /\ t_result' = convert_relative_time(t_text, now)
    /\ t_pc' = "done"
    /\ UNCHANGED <<t_text, now>>
    /\ UNCHANGED notTime

\* lines 195-196: a date is returned
ConvertReturns ==
    /\ t_pc = "start"
    /\ ~Unusable(t_text)
    /\ ~Raises(t_text, now)
    /\ t_result' = convert_relative_time(t_text, now)
    /\ t_pc' = "done"
    /\ UNCHANGED <<t_text, now>>
    /\ UNCHANGED notTime

NextTime == ConvertNothing \/ ConvertRaises \/ ConvertReturns

SpecTime == InitTime /\ [][NextTime]_vars

(***************************************************************************)
(* deduplicate_reviews.  The dicts are mutable objects: the function       *)
(* writes the clean_* keys into each dict it keeps and returns a list of   *)
(* references to the very dicts it was given.                              *)
(***************************************************************************)
RawDict(user, text, time) == [user_name |-> user, text |-> text, time |-> time]

\* the review dicts of a raw JSON file
RawDicts ==
    { RawDict(Chars("a"), Chars("x"), Chars("2 jam yang lalu")),
      RawDict(Chars(" a"), Chars("x "), Chars("3 hari yang lalu")),
      RawDict(Chars("a"), Chars("x#+"), Chars("Diedit 2 jam yang lalu")),
      RawDict(Chars("b"), Chars("x"), <<>>),
      RawDict(None, Chars("x"), None),
      RawDict(Chars("A"), Chars("y\n y"), Chars("gibberish")),
      RawDict(Chars("a"), Chars(" \n"), Chars("2 hari yang lalu")),
      RawDict(Chars("b"), None, Chars("seminggu yang lalu")) }

\* user_name = clean_text(review.get('user_name', ''))
CleanUser(d) == clean_text(d.user_name)

\* review_text = clean_text(review.get('text', ''))
CleanText(d) == clean_text(d.text)

\* (mutation of Signature: the author is left out of the signature)
SignatureOfText(d) == <<CleanText(d)>>

\* signature = (user_name, review_text)
Signature(d) == <<CleanUser(d), CleanText(d)>>

\* (mutation of IsNew: the membership test is lost)
IsNewAlways(signature) == TRUE

\* if signature not in seen_signatures
IsNew(signature) == signature \notin seen_signatures

\* (mutation of Appended: the review is put in front)
Prepended(list, ref) == <<ref>> \o list

\* unique_reviews.append(review)
Appended(list, ref) == Append(list, ref)

\* review['clean_user_id'] = ...; review['clean_text'] = ...;
\* review['clean_time_iso'] = ...
Enriched(d, clock) ==
    [clean_user_id |-> anonymize_user(CleanUser(d)),
     clean_text |-> CleanText(d),
     clean_time_iso |-> convert_relative_time(clean_text(d.time), clock)]
        @@ d

InitDedup ==
    /\ dicts \in UNION {[1..n -> RawDicts] : n \in 0..MaxRaw}
    /\ raw_reviews = Positions(Len(dicts))
    /\ d_next = 1
    /\ unique_reviews = <<>>
    /\ seen_signatures = {}
    /\ d_run = 1
    /\ first_unique = <<>>
    /\ first_dicts = <<>>
    /\ d_pc = "loop"
    /\ now = FirstNow
    /\ IdleHarvest
    /\ IdleSample
    /\ IdleTime
    /\ IdleExtract
    /\ IdleOthers

\* the clock advances by an hour (environment)
ClockTick ==
    /\ d_pc = "loop"
    /\ now < FirstNow + MaxTicks
    /\ now' = now + 1
    /\ UNCHANGED dedupVars
    /\ UNCHANGED notDedup

\* "if not review_text: continue"
DedupSkipsEmpty ==
    /\ d_pc = "loop"
    /\ d_next <= Len(raw_reviews)
    /\ CleanText(dicts[raw_reviews[d_next]]) = <<>>
    /\ d_next' = d_next + 1
    /\ UNCHANGED <<dicts, raw_reviews, unique_reviews, seen_signatures,
                   d_run, first_unique, first_dicts, d_pc, now>>
    /\ UNCHANGED notDedup

\* the signature was seen before: the review is dropped
DedupDrops ==
    /\ d_pc = "loop"
    /\ d_next <= Len(raw_reviews)
    /\ CleanText(dicts[raw_reviews[d_next]]) # <<>>
    /\ ~IsNew(Signature(dicts[raw_reviews[d_next]]))
    /\ d_next' = d_next + 1
    /\ UNCHANGED <<dicts, raw_reviews, unique_reviews, seen_signatures,
                   d_run, first_unique, first_dicts, d_pc, now>>
    /\ UNCHANGED notDedup

\* a new signature: the review is enriched in place and kept
DedupKeeps ==
    /\ d_pc = "loop"
    /\ d_next <= Len(raw_reviews)
    /\ LET ref == raw_reviews[d_next]
       IN  /\ CleanText(dicts[ref]) # <<>>
           /\ IsNew(Signature(dicts[ref]))
           /\ seen_signatures' = seen_signatures \cup {Signature(dicts[ref])}
           /\ dicts' = [dicts EXCEPT ![ref] = Enriched(dicts[ref], now)]
           /\ unique_reviews' = Appended(unique_reviews, ref)
    /\ d_next' = d_next + 1
    /\ UNCHANGED <<raw_reviews, d_run, first_unique, first_dicts, d_pc, now>>
    /\ UNCHANGED notDedup

\* the for loop is over: return unique_reviews
DedupReturns ==
    /\ d_pc = "loop"
    /\ d_next > Len(raw_reviews)
    /\ d_pc' = "done"
    /\ UNCHANGED <<dicts, raw_reviews, d_next, unique_reviews,
                   seen_signatures, d_run, first_unique, first_dicts, now>>
    /\ UNCHANGED notDedup

\* deduplicate_reviews is called again, on the list it returned
DedupAgain ==
    /\ d_pc = "done"
    /\ d_run = 1
    /\ raw_reviews' = unique_reviews
    /\ first_unique' = unique_reviews
    /\ first_dicts' = dicts
    /\ d_next' = 1
    /\ unique_reviews' = <<>>
    /\ seen_signatures' = {}
    /\ d_run' = 2
    /\ d_pc' = "loop"
    /\ UNCHANGED <<dicts, now>>
    /\ UNCHANGED notDedup

NextDedup ==
    \/ ClockTick
    \/ DedupSkipsEmpty
    \/ DedupDrops
    \/ DedupKeeps
    \/ DedupReturns
    \/ DedupAgain

SpecDedup == InitDedup /\ [][NextDedup]_vars

(***************************************************************************)
(* extract_reviews_with_js.  A card is what its selectors find: the inner  *)
(* text of .wiI7pd, of .d4r55.fontTitleMedium and of .rsqaWe (None when    *)
(* the element is missing) and the number of span.hCCjke stars.            *)
(***************************************************************************)
Card(text, user, stars, time) ==
    [text |-> text, user |-> user, stars |-> stars, time |-> time]

\* the cards a reviews panel shows
DomCards ==
    { Card(Chars("x"), Chars("a\nb"), 5, Chars("2 jam yang lalu")),
      Card(Chars("y "), None, 0, None),
      Card(Chars(" \n"), Chars("a"), 4, Chars("3 hari yang lalu")),
      Card(<<>>, Chars("b"), 1, Chars("2 jam yang lalu")),
      Card(None, Chars("a"), 3, <<>>) }

\* el ? el.innerText : fallback
InnerText(el, fallback) == IF el = None THEN fallback ELSE el

\* str.split('\n')[0]
RECURSIVE FirstLine(_)
FirstLine(text) ==
    IF text = <<>> \/ Head(text) = "\n" THEN <<>>
    ELSE <<Head(text)>> \o FirstLine(Tail(text))

\* (mutation of IsBlank: whitespace is not trimmed before the test)
IsBlankUntrimmed(text) == text = <<>>

\* !text || text.trim().length === 0
IsBlank(text) == text = <<>> \/ Len(Strip(text)) = 0

\* the object pushed on data
Pushed(card) ==
    [user_name |-> IF card.user = None THEN Chars("Anonymous")
                   ELSE FirstLine(card.user),
     rating |-> card.stars,
     text |-> InnerText(card.text, <<>>),
     time |-> InnerText(card.time, <<>>)]

\* reviews_data[:max_reviews]
Limited(list) == Prefix(list, max_reviews)

InitExtract ==
    /\ cards \in UNION {[1..n -> DomCards] : n \in 0..MaxCards}
    /\ max_reviews \in 0..MaxTarget
    /\ e_next = 1
    /\ data = <<>>
    /\ e_result = <<>>
    /\ e_pc = "each"
    /\ loaded = 0
    /\ exhausted = FALSE
    /\ last_card_count = 0
    /\ scroll_attempts = 0
    /\ current_count = 0
    /\ nudges = <<>>
    /\ no_growth_reads = 0
    /\ h_pc = "idle"
    /\ IdleSample
    /\ IdleClock
    /\ IdleTime
    /\ IdleDedup
    /\ IdleOthers

\* a card without text: "return" from the forEach callback
ExtractSkipsBlank ==
    /\ e_pc = "each"
    /\ e_next <= Len(cards)
    /\ IsBlank(InnerText(cards[e_next].text, <<>>))
    /\ e_next' = e_next + 1
    /\ UNCHANGED <<cards, max_reviews, data, e_result, e_pc>>
    /\ UNCHANGED notExtract

\* a card with text: data.push({...})
ExtractPushes ==
    /\ e_pc = "each"
    /\ e_next <= Len(cards)
    /\ ~IsBlank(InnerText(cards[e_next].text, <<>>))
    /\ data' = Append(data, Pushed(cards[e_next]))
    /\ e_next' = e_next + 1
    /\ UNCHANGED <<cards, max_reviews, e_result, e_pc>>
    /\ UNCHANGED notExtract

\* return data; return reviews_data[:max_reviews]
ExtractReturns ==
    /\ e_pc = "each"
    /\ e_next > Len(cards)
    /\ e_result' = Limited(data)
    /\ e_pc' = "done"
    /\ UNCHANGED <<cards, max_reviews, e_next, data>>
    /\ UNCHANGED notExtract

NextExtract == ExtractSkipsBlank \/ ExtractPushes \/ ExtractReturns

SpecExtract == InitExtract /\ [][NextExtract]_vars

(***************************************************************************)
(* scrape_all_reviews.  What the page and the disk do while one place is   *)
(* scraped is one of:                                                      *)
(*   "ok"         nothing fails                                            *)
(*   "goto"       page.goto raises (navigation timeout)                    *)
(*   "structure"  both selectors of wait_for_page_load time out            *)
(*   "harvest"    the reviews tab, scroll_reviews_panel or                 *)
(*                extract_reviews_with_js raises                           *)
(*   "open"       open(output_file, 'w') raises: no file is made           *)
(*   "dump"       json.dump raises after open() made the file              *)
(* An exception that leaves a function is the value Raised.                *)
(***************************************************************************)
MaxPlaces == 2     \* every places list of up to MaxPlaces rows is scraped

Faults == {"ok", "goto", "structure", "harvest", "open", "dump"}

Raised == <<"Raised">>

\* the place_name column: two names with the same safe name, and another
PlaceNames == {Chars("Curug 1"), Chars("Curug #1"), Chars("Danau")}

\* str.isalnum(), on the characters the place names use
IsAlnum(c) ==
    \E i \in 1..62 :
        c = Chars("abcdefghijklmnopqrstuvwxyzABCDEFGHIJKLMNOPQRSTUVWXYZ0123456789")[i]

\* c.isalnum() or c in (' ', '-', '_')
IsSafeChar(c) == IsAlnum(c) \/ c \in {" ", "-", "_"}

\* "".join(safe_chars).strip()
sanitize_filename(filename) == Strip(SelectSeq(filename, IsSafeChar))

\* wait_for_page_load(page)
wait_for_page_load(fault) == fault # "structure"

\* reviews_data after the inner try / except of lines 376-392
ReviewsData(fault) == IF fault = "harvest" THEN <<>> ELSE <<"review">>

\* the outer try block of scrape_place_data, lines 355-398
ScrapeTried(place_name, fault) ==
    IF fault = "goto" THEN Raised
    ELSE IF ~wait_for_page_load(fault) THEN None
    ELSE <<"data", place_name, ReviewsData(fault)>>

\* (mutation of scrape_place_data: no except clause around the body)
scrape_place_data_unguarded(place_name, fault) ==
    ScrapeTried(place_name, fault)

\* scrape_place_data: "except Exception" returns None
scrape_place_data(place_name, fault) ==
    IF ScrapeTried(place_name, fault) = Raised THEN None
    ELSE ScrapeTried(place_name, fault)

\* OUTPUT_DIR after save_to_json(data, output_file)
Saved(files, output_file, place_data, fault) ==
    IF fault = "open" THEN files
    ELSE IF fault = "dump" THEN (output_file :> <<"partial">>) @@ files
    ELSE (output_file :> place_data) @@ files

\* os.path.exists(output_json)
Exists(files, safe_name) == safe_name \in DOMAIN files

InitBatch ==
    /\ places_df \in UNION {[1..n -> PlaceNames] : n \in 0..MaxPlaces}
    /\ output_files = <<>>
    /\ b_next = 1
    /\ b_run = 1
    /\ b_log = <<>>
    /\ b_existed = <<>>
    /\ b_gotos = <<>>
    /\ b_before = <<>>
    /\ b_pc = "loop"
    /\ IdleHarvest
    /\ IdleSample
    /\ IdleClock
    /\ IdleTime
    /\ IdleDedup
    /\ IdleExtract
    /\ IdleAnon
    /\ IdleFeed

\* lines 462-464: the JSON file exists, "continue"
PlaceSkipped ==
    /\ b_pc = "loop"
    /\ b_next <= Len(places_df)
    /\ Exists(output_files, sanitize_filename(places_df[b_next]))
    /\ b_log' = Append(b_log, "skipped")
    /\ b_existed' = Append(b_existed, TRUE)
    /\ b_next' = b_next + 1
    /\ UNCHANGED <<places_df, output_files, b_run, b_gotos, b_before, b_pc>>
    /\ UNCHANGED notBatch

\* lines 466-472: the place is scraped and, unless that failed, saved; an
\* exception leaving scrape_place_data ends the loop (lines 476-477)
PlaceProcessed ==
    /\ b_pc = "loop"
    /\ b_next <= Len(places_df)
    /\ ~Exists(output_files, sanitize_filename(places_df[b_next]))
    /\ \E fault \in Faults :
          LET place_name == places_df[b_next]
              place_data == scrape_place_data(place_name, fault)
          IN  /\ b_log' = Append(b_log, fault)
              /\ IF place_data = Raised
                 THEN /\ b_pc' = "aborted"
                      /\ UNCHANGED <<output_files, b_next>>
                 ELSE /\ output_files' =
                            IF place_data # None
                            THEN Saved(output_files,
                                       sanitize_filename(place_name),
                                       place_data, fault)
                            ELSE output_files
                      /\ b_next' = b_next + 1
                      /\ b_pc' = "loop"
    /\ b_existed' = Append(b_existed, FALSE)
    /\ b_gotos' = Append(b_gotos, b_next)
    /\ UNCHANGED <<places_df, b_run, b_before>>
    /\ UNCHANGED notBatch

\* line 474 and the finally clause: the loop is over
BatchEnds ==
    /\ b_pc = "loop"
    /\ b_next > Len(places_df)
    /\ b_pc' = "done"
    /\ UNCHANGED <<places_df, output_files, b_next, b_run, b_log, b_existed,
                   b_gotos, b_before>>
    /\ UNCHANGED notBatch

\* the script is run again, on the same places list and output directory
RunAgain ==
    /\ b_pc = "done"
    /\ b_run = 1
    /\ b_run' = 2
    /\ b_before' = b_log
    /\ b_next' = 1
    /\ b_log' = <<>>
    /\ b_existed' = <<>>
    /\ b_gotos' = <<>>
    /\ b_pc' = "loop"
    /\ UNCHANGED <<places_df, output_files>>
    /\ UNCHANGED notBatch

NextBatch == PlaceSkipped \/ PlaceProcessed \/ BatchEnds \/ RunAgain

SpecBatch == InitBatch /\ [][NextBatch]_vars

(***************************************************************************)
(* scroll_results_panel (gmaps_scraper.py)                                 *)
(***************************************************************************)
MAX_SCROLL_ATTEMPTS == 50

\* The feed answers feed.scrollTop = feed.scrollHeight with zero or more
\* new a.hfpxzc links.
FeedGrown(n) == n..(n + MaxGrow)

\* if current_count == last_count or end_of_list: break
StopsScrolling(count, last, end_of_list) == count = last \/ end_of_list

\* (mutation of AttemptsLeft: one attempt more)
AttemptsLeftInclusive(a) == a <= MAX_SCROLL_ATTEMPTS

\* while scroll_attempts < MAX_SCROLL_ATTEMPTS
AttemptsLeft(a) == a < MAX_SCROLL_ATTEMPTS

InitFeed ==
    /\ feed_places \in 0..MaxGrow
    /\ f_last_count = 0
    /\ f_scroll_attempts = 0
    /\ f_current_count = 0
    /\ f_end_of_list = FALSE
    /\ f_read_before = 0
    /\ f_pc = "loop"
    /\ IdleHarvest
    /\ IdleSample
    /\ IdleClock
    /\ IdleTime
    /\ IdleDedup
    /\ IdleExtract
    /\ IdleAnon
    /\ IdleBatch

\* An iteration that ends in "break": no new places, or the end marker.
FeedScrollStops ==
    /\ f_pc = "loop"
    /\ AttemptsLeft(f_scroll_attempts)
    /\ \E places \in FeedGrown(feed_places), marker \in BOOLEAN :
          /\ StopsScrolling(places, f_last_count, marker)
          /\ feed_places' = places
          /\ f_current_count' = places
          /\ f_end_of_list' = marker
    /\ f_scroll_attempts' = f_scroll_attempts + 1
    /\ f_read_before' = f_current_count
    /\ f_pc' = "done"
    /\ UNCHANGED f_last_count
    /\ UNCHANGED notFeed

\* An iteration that reaches "last_count = current_count"; the loop ends
\* when no attempt is left.
FeedScrollContinues ==
    /\ f_pc = "loop"
    /\ AttemptsLeft(f_scroll_attempts)
    /\ \E places \in FeedGrown(feed_places), marker \in BOOLEAN :
          /\ ~StopsScrolling(places, f_last_count, marker)
          /\ feed_places' = places
          /\ f_current_count' = places
          /\ f_end_of_list' = marker
          /\ f_last_count' = places
    /\ f_scroll_attempts' = f_scroll_attempts + 1
    /\ f_read_before' = f_current_count
    /\ f_pc' = IF AttemptsLeft(f_scroll_attempts') THEN "loop" ELSE "done"
    /\ UNCHANGED notFeed

NextFeed == FeedScrollStops \/ FeedScrollContinues

SpecFeed == InitFeed /\ [][NextFeed]_vars

\* The while loop keeps running: every iteration that can run, does.
FairFeed == SpecFeed /\ WF_vars(NextFeed)

(***************************************************************************)
(* C1  Harvester termination.  Once the item source has stopped growing at *)
(* a count k below target_count (= max_reviews + SCROLL_EXTRA_BUFFER), the *)
(* running loop of scroll_reviews_panel eventually terminates, and the     *)
(* count it returns is k.                                                  *)
(***************************************************************************)
HarvesterTerminates ==
    (h_pc = "loop" /\ exhausted /\ loaded < target_count)
        ~> (h_pc = "done" /\ current_count = loaded)

\* the source stopped at 5 cards and the harvester gave up, returning 5
HarvesterGaveUpAtFive ==
    /\ h_pc = "done"
    /\ exhausted
    /\ loaded = 5
    /\ current_count = 5
    /\ current_count < target_count
    /\ GiveUp(scroll_attempts)

(***************************************************************************)
(* C2  Sampler size bound.  stratified_sample_reviews(reviews, N) returns  *)
(* at most N reviews, and when len(reviews) <= N it returns the input      *)
(* unchanged: the same reviews in the same order.                          *)
(***************************************************************************)
SamplerSizeBound ==
    s_pc = "done" =>
        /\ Len(s_result) <= max_count
        /\ Len(reviews) <= max_count => s_result = Positions(Len(reviews))

\* a list longer than max_count >= 5 was sampled down to max_count
SampledDownToMaxCount ==
    /\ s_pc = "done"
    /\ max_count >= 5
    /\ Len(reviews) > max_count
    /\ Len(s_result) = max_count

(***************************************************************************)
(* C3  The sampler reaches the requested size.  Whenever len(reviews) >    *)
(* max_count the result has exactly max_count reviews: the overflow pool   *)
(* (the surplus of buckets 1-5 and all of bucket 0) fills the shortage.    *)
(***************************************************************************)
SamplerReachesMaxCount ==
    (s_pc = "done" /\ Len(reviews) > max_count) => Len(s_result) = max_count

\* the shortage left by the per-bucket shares was filled with an unrated review
FilledWithUnrated ==
    /\ s_pc = "done"
    /\ Len(reviews) > max_count
    /\ max_count \div 5 >= 1
    /\ RatedIn(s_result, 0) > 0
    /\ Len(s_result) = max_count

(***************************************************************************)
(* C4  Sampler balance.  Whenever len(reviews) > max_count, for every      *)
(* rating r in 1..5 the result holds at least                              *)
(* min(number of input reviews rated r, max_count // 5) reviews rated r,   *)
(* whatever the shuffles do.                                               *)
(***************************************************************************)
SamplerBalance ==
    (s_pc = "done" /\ Len(reviews) > max_count) =>
        \A r \in 1..5 :
            RatedIn(s_result, r) >= Min(RatedInput(r), max_count \div 5)

\* a bucket with more reviews than the share got exactly its share, an
\* empty bucket got nothing
ShareBinding ==
    /\ s_pc = "done"
    /\ Len(reviews) > max_count
    /\ max_count \div 5 >= 1
    /\ \E r \in 1..5 :
          /\ RatedInput(r) > max_count \div 5
          /\ RatedIn(s_result, r) = max_count \div 5
    /\ \E r \in 1..5 : RatedInput(r) = 0

(***************************************************************************)
(* C5  Sampler with skewed input: only ratings 1 and 5 in the input, more  *)
(* rating-1 reviews than the per-bucket share, and enough rating-5 reviews *)
(* to fill every slot the shares leave (90 rated 5, 10 rated 1,            *)
(* max_count = 20; here 4 rated 5, 2 rated 1, max_count = 5).              *)
(***************************************************************************)
Skewed ==
    /\ s_pc = "done"
    /\ Len(reviews) > max_count
    /\ RatedInput(1) + RatedInput(5) = Len(reviews)
    /\ max_count \div 5 >= 1
    /\ RatedInput(1) > max_count \div 5
    /\ RatedInput(5) >= max_count - max_count \div 5

\* C5 as claimed: exactly min(number rated 1, share) reviews of the result
\* are rated 1 and every other slot is backfilled from bucket 5.
SkewedExactShare ==
    Skewed =>
        /\ Len(s_result) = max_count
        /\ RatedIn(s_result, 1) = Min(RatedInput(1), max_count \div 5)
        /\ RatedIn(s_result, 5) =
              max_count - Min(RatedInput(1), max_count \div 5)

\* C5 as amended: the result has max_count reviews, at least the share and
\* at most all of the rating-1 reviews, and the rest are rated 5 (the
\* overflow pool holds the surplus of bucket 1 as well as that of bucket 5).
SkewedShareBounds ==
    Skewed =>
        /\ Len(s_result) = max_count
        /\ RatedIn(s_result, 1) >= Min(RatedInput(1), max_count \div 5)
        /\ RatedIn(s_result, 1) <= RatedInput(1)
        /\ RatedIn(s_result, 5) = max_count - RatedIn(s_result, 1)
        /\ RatedIn(s_result, 5) >= Min(RatedInput(5), max_count \div 5)

\* the backfill took a rating-1 review from the overflow pool
BackfilledFromBucketOne ==
    /\ Skewed
    /\ RatedIn(s_result, 1) > max_count \div 5

(***************************************************************************)
(* C6  Dedup key invariant.  No two records in the output of               *)
(* deduplicate_reviews share the pair (cleaned author name, cleaned review *)
(* text).                                                                  *)
(***************************************************************************)
DedupKeysDistinct ==
    \A i, j \in 1..Len(unique_reviews) :
        i # j =>
            <<clean_text(dicts[unique_reviews[i]].user_name),
              dicts[unique_reviews[i]].clean_text>>
            # <<clean_text(dicts[unique_reviews[j]].user_name),
                dicts[unique_reviews[j]].clean_text>>

\* three reviews with text went in, a repeated one was dropped, two came out
RepeatedReviewDropped ==
    /\ d_pc = "done"
    /\ d_run = 1
    /\ Len(dicts) = 3
    /\ \A i \in 1..3 : clean_text(dicts[i].text) # <<>>
    /\ Len(unique_reviews) = 2

(***************************************************************************)
(* C7  Dedup idempotence.  Running deduplicate_reviews on its own output   *)
(* yields the same records (the same dicts) in the same order, with no     *)
(* further reduction; the raw fields, clean_user_id and clean_text of      *)
(* every record are as the first run left them.                            *)
(***************************************************************************)
DedupIdempotent ==
    (d_pc = "done" /\ d_run = 2) =>
        /\ unique_reviews = first_unique
        /\ \A i \in 1..Len(unique_reviews) :
              LET after == dicts[unique_reviews[i]]
                  before == first_dicts[unique_reviews[i]]
              IN  /\ after.user_name = before.user_name
                  /\ after.text = before.text
                  /\ after.time = before.time
                  /\ after.clean_user_id = before.clean_user_id
                  /\ after.clean_text = before.clean_text

\* the second run ended on an output of two records that the first run had
\* reduced from three
SecondRunEnded ==
    /\ d_pc = "done"
    /\ d_run = 2
    /\ Len(dicts) = 3
    /\ Len(first_unique) = 2
    /\ Len(unique_reviews) = 2

(***************************************************************************)
(* C8  Dedup is order-preserving and first-occurrence-wins.  The output is *)
(* exactly the subsequence of the input reviews that have a non-empty      *)
(* cleaned text and are the first occurrence of their (cleaned author,     *)
(* cleaned text) key; reviews with the same text and different cleaned     *)
(* author names are all kept, in input order.                              *)
(***************************************************************************)
DedupFirstOccurrences ==
    (d_pc = "done" /\ d_run = 1) =>
        unique_reviews =
            SelectSeq(Positions(Len(dicts)),
                LAMBDA i :
                    /\ clean_text(dicts[i].text) # <<>>
                    /\ \A j \in 1..(i - 1) :
                          \/ clean_text(dicts[j].user_name)
                                # clean_text(dicts[i].user_name)
                          \/ clean_text(dicts[j].text)
                                # clean_text(dicts[i].text))

\* two reviews with the same cleaned text and different cleaned authors
\* were both kept, and a later repetition of the first was dropped
SameTextTwoAuthorsKept ==
    /\ d_pc = "done"
    /\ d_run = 1
    /\ Len(dicts) = 3
    /\ unique_reviews = <<1, 2>>
    /\ dicts[1].clean_text = dicts[2].clean_text
    /\ clean_text(dicts[1].user_name) # clean_text(dicts[2].user_name)
    /\ clean_text(dicts[3].text) # <<>>

(***************************************************************************)
(* C9  The relative-time resolver returns the empty string for every       *)
(* non-empty text in which none of the unit keywords matches.              *)
(***************************************************************************)
UnitKeywords ==
    {"menit", "detik", "baru saja", "jam", "hari", "minggu", "bulan",
     "tahun"}

ResolverEmptyWithoutKeyword ==
    (/\ t_pc = "done"
     /\ t_text # None
     /\ t_text # <<>>
     /\ \A w \in UnitKeywords : ~Contains(Lower(t_text), Chars(w)))
        => t_result = <<>>

(***************************************************************************)
(* C10  Extractor filtering and bound.  extract_reviews_with_js returns at *)
(* most max_reviews records, in the order the cards were loaded; a card    *)
(* whose text is empty or whitespace-only is excluded and does not count   *)
(* against max_reviews: the result is the first max_reviews cards among    *)
(* those with non-blank text.                                              *)
(***************************************************************************)
\* the positions of the cards with a text that is not blank
CardsWithText ==
    SelectSeq(Positions(Len(cards)),
        LAMBDA i :
            /\ cards[i].text # None
            /\ \E k \in 1..Len(cards[i].text) :
                  cards[i].text[k] \notin Whitespace)

ExtractorFirstWithText ==
    e_pc = "done" =>
        /\ Len(e_result) <= max_reviews
        /\ Len(e_result) = Min(max_reviews, Len(CardsWithText))
        /\ \A k \in 1..Len(e_result) :
              /\ e_result[k].text = cards[CardsWithText[k]].text
              /\ e_result[k].rating = cards[CardsWithText[k]].stars

\* a whitespace-only card came first and max_reviews records were still
\* returned, from the cards after it
BlankCardNotCounted ==
    /\ e_pc = "done"
    /\ max_reviews = 2
    /\ Len(cards) = 4
    /\ cards[1].text = Chars(" \n")
    /\ Len(e_result) = 2
    /\ Len(CardsWithText) = 3

(***************************************************************************)
(* C14  The harvester tolerates transient stalls.  scroll_reviews_panel    *)
(* terminates below target_count only after more than 10 reads in a row    *)
(* that found no growth; after an iteration that read a grown count below  *)
(* target_count (whatever the number of stalls before it) the loop is      *)
(* still running.                                                          *)
(***************************************************************************)
HarvesterToleratesStalls ==
    /\ (h_pc = "done" /\ current_count < target_count)
          => no_growth_reads > GiveUpAfter
    /\ (no_growth_reads = 0 /\ current_count < target_count)
          => h_pc = "loop"

\* the count grew again after exactly ten stalled reads in a row, and the
\* loop went on
GrowthAfterTenStalls ==
    /\ h_pc = "loop"
    /\ scroll_attempts = GiveUpAfter
    /\ no_growth_reads = GiveUpAfter
    /\ loaded > current_count

(***************************************************************************)
(* C15  Harvester state machine.  The state of scroll_reviews_panel is     *)
(* GROWING while the stall counter is 0, STALLED while it is 1..3,         *)
(* ESCALATING while it is above 3, DONE once the loop ended on a count >=  *)
(* target_count and GAVE_UP once it ended below it.  An iteration either   *)
(* leaves the state as it is or makes one of the listed transitions.       *)
(***************************************************************************)
HarvestState(pc, attempts, count) ==
    IF pc = "done"
    THEN IF count >= target_count THEN "DONE" ELSE "GAVE_UP"
    ELSE IF attempts = 0 THEN "GROWING"
    ELSE IF attempts <= EscalateAfter THEN "STALLED"
    ELSE "ESCALATING"

HarvestStateNow == HarvestState(h_pc, scroll_attempts, current_count)

\* the transitions the claim lists
ListedTransitions ==
    { <<"GROWING", "STALLED">>,
      <<"STALLED", "GROWING">>,
      <<"STALLED", "ESCALATING">>,
      <<"ESCALATING", "GAVE_UP">> }
    \cup {<<from, "DONE">> : from \in {"GROWING", "STALLED", "ESCALATING"}}

\* C15 as claimed: every change of state is a listed transition
HarvesterListedTransitionsOnly ==
    [][ \/ HarvestStateNow' = HarvestStateNow
        \/ <<HarvestStateNow, HarvestStateNow'>> \in ListedTransitions ]_vars

\* C15 as amended: every change of state is a listed transition or
\* ESCALATING -> GROWING (growth resumes while escalating); GAVE_UP is
\* entered only from ESCALATING, and DONE and GAVE_UP are terminal.
HarvesterTransitions ==
    [][ /\ \/ HarvestStateNow' = HarvestStateNow
           \/ <<HarvestStateNow, HarvestStateNow'>> \in ListedTransitions
           \/ <<HarvestStateNow, HarvestStateNow'>>
                 = <<"ESCALATING", "GROWING">>
        /\ HarvestStateNow \in {"DONE", "GAVE_UP"}
              => HarvestStateNow' = HarvestStateNow ]_vars

\* the harvester is escalating (End and the wheel after the fifth stalled
\* read in a row) and the wheel has brought new cards: the next read finds
\* growth below target_count
GrowthResumingWhileEscalating ==
    /\ h_pc = "loop"
    /\ HarvestStateNow = "ESCALATING"
    /\ no_growth_reads = 5
    /\ nudges = <<"End", "Wheel">>
    /\ loaded > current_count
    /\ loaded < target_count

(***************************************************************************)
(* C16  Stall counter reset.  While the loop runs, and when it has given   *)
(* up, scroll_attempts is the number of reads in a row that found no       *)
(* growth (0 right after a read that found a new count below               *)
(* target_count), and last_card_count is the count last read.              *)
(***************************************************************************)
StallCounterCountsStalls ==
    (h_pc = "loop" \/ current_count < target_count) =>
        /\ scroll_attempts = no_growth_reads
        /\ last_card_count = current_count

\* a read that found a new count has just reset the counter
StallCounterWasReset ==
    /\ h_pc = "loop"
    /\ scroll_attempts = 0
    /\ current_count > 0
    /\ last_card_count = current_count
    /\ nudges = <<"End">>

(***************************************************************************)
(* C17  Escalation ordering.  The mouse wheel is scrolled only in an       *)
(* iteration that found more than 3 reads in a row without growth (so      *)
(* never in an iteration that found growth), and only right after the End  *)
(* key of that iteration.                                                  *)
(***************************************************************************)
EscalationOrdering ==
    \A i \in 1..Len(nudges) :
        nudges[i] = "Wheel" =>
            /\ no_growth_reads > EscalateAfter
            /\ i > 1
            /\ nudges[i - 1] = "End"
            /\ \A j \in 1..Len(nudges) : nudges[j] = "Wheel" => j = i

\* the fourth stalled read in a row pressed End and then scrolled the wheel
WheelOnFourthStall ==
    /\ h_pc = "loop"
    /\ no_growth_reads = EscalateAfter + 1
    /\ nudges = <<"End", "Wheel">>

(***************************************************************************)
(* C18  The sampler selects without replacement.  Every review of the      *)
(* result of stratified_sample_reviews is a review of the input and no     *)
(* input review (by position) is in the result twice; while the buckets    *)
(* are sampled, and until the shortage is filled, the per-bucket picks and *)
(* the overflow pool have no review in common and none twice.              *)
(***************************************************************************)
NoRepeats(s) == \A i, j \in 1..Len(s) : i # j => s[i] # s[j]

SamplerWithoutReplacement ==
    /\ s_pc = "done" =>
          /\ \A i \in 1..Len(s_result) : s_result[i] \in 1..Len(reviews)
          /\ NoRepeats(s_result)
    /\ s_pc \in {"sample", "fill"} =>
          /\ NoRepeats(sampled_reviews \o overflow_pool)
          /\ \A i \in 1..Len(sampled_reviews) :
                sampled_reviews[i] \in 1..Len(reviews)
          /\ \A i \in 1..Len(overflow_pool) :
                overflow_pool[i] \in 1..Len(reviews)

\* seven reviews, two of them rated 5, were sampled down to six: the share
\* of bucket 5 is one review, and the other came from the overflow pool
SecondFiveFromPool ==
    /\ s_pc = "done"
    /\ Len(reviews) = 7
    /\ max_count = 6
    /\ Len(s_result) = 6
    /\ RatedIn(s_result, 5) = 2

(***************************************************************************)
(* C13  Anonymization determinism.  anonymize_user is a function of the    *)
(* trimmed, lowercased name: two names that are equal after trimming and   *)
(* lowercasing get the same identifier, and the empty or absent name gets  *)
(* "anonymous".  (The digest is opaque here, so the length of the          *)
(* identifier is not part of the formula.)                                 *)
(***************************************************************************)
AnonymizeByTrimmedLowercased ==
    a_pc = "done" =>
        /\ \A i, j \in 1..Len(user_names) :
              (/\ user_names[i] # None
               /\ user_names[j] # None
               /\ Lower(Strip(user_names[i])) = Lower(Strip(user_names[j])))
                  => user_ids[i] = user_ids[j]
        /\ \A i \in 1..Len(user_names) :
              Nameless(user_names[i]) => user_ids[i] = Chars("anonymous")

(***************************************************************************)
(* C11  Batch failure isolation.  A navigation timeout, a page-structure   *)
(* timeout, an exception in review harvesting or a failed save while one   *)
(* place is processed never aborts scrape_all_reviews: the loop goes on    *)
(* with the next row, and when it ends every row of the places list has    *)
(* been reached once, in order, and was processed or skipped.              *)
(***************************************************************************)
BatchFailureIsolation ==
    /\ b_pc # "aborted"
    /\ b_pc \in {"loop", "done"} =>
          /\ Len(b_log) = b_next - 1
          /\ \A i \in 1..Len(b_log) : b_log[i] \in Faults \cup {"skipped"}
    /\ b_pc = "done" => Len(b_log) = Len(places_df)

\* the first run could not load the first place nor save the second; the
\* second run could not write the file of the first to its end and still
\* scraped and saved the second
SecondPlaceSavedAfterFailures ==
    /\ b_pc = "done"
    /\ b_run = 2
    /\ b_before = <<"goto", "open">>
    /\ b_log = <<"dump", "ok">>
    /\ Exists(output_files, sanitize_filename(places_df[2]))
    /\ output_files[sanitize_filename(places_df[2])][1] = "data"

(***************************************************************************)
(* C12  Idempotent re-runs.  A place is skipped (no page.goto, its file    *)
(* left as it is) exactly when the JSON file of its safe name exists when  *)
(* the place is reached; a place whose scrape failed (scrape_place_data    *)
(* returned None) is scraped again by the next run; a run that starts with *)
(* a file for every place scrapes nothing.                                 *)
(***************************************************************************)
ScrapeFailed(entry) == entry \in {"goto", "structure"}

LeftFile(entry) == entry \in {"skipped", "ok", "harvest", "dump"}

IdempotentReruns ==
    /\ \A i \in 1..Len(b_log) :
          /\ b_log[i] = "skipped" <=> b_existed[i]
          /\ b_log[i] = "skipped" =>
                \A k \in 1..Len(b_gotos) : b_gotos[k] # i
    /\ b_run = 2 =>
          /\ \A i \in 1..Len(b_log) :
                ScrapeFailed(b_before[i]) => b_log[i] # "skipped"
          /\ (\A i \in 1..Len(b_before) : LeftFile(b_before[i]))
                => b_gotos = <<>>

(***************************************************************************)
(* C19  Search-results feed scroll loop.  scroll_results_panel terminates, *)
(* no later than the first iteration that reads the count the iteration    *)
(* before it read or sees the end-of-list marker, and after at most        *)
(* MAX_SCROLL_ATTEMPTS = 50 iterations; it returns the last count read.    *)
(***************************************************************************)
FeedLoopBounded ==
    /\ f_scroll_attempts <= MAX_SCROLL_ATTEMPTS
    /\ f_pc = "loop" =>
          /\ f_scroll_attempts < MAX_SCROLL_ATTEMPTS
          /\ f_scroll_attempts >= 1 => ~f_end_of_list
          /\ f_scroll_attempts >= 2 => f_current_count # f_read_before
    /\ f_pc = "done" =>
          /\ f_scroll_attempts >= 1
          /\ f_current_count = feed_places

FeedScrollTerminates == []FeedLoopBounded /\ <>(f_pc = "done")

\* the feed grew at every read and never showed the end marker: the loop
\* ended with the fiftieth iteration and returned its count
FeedScrolledToTheLimit ==
    /\ f_pc = "done"
    /\ f_scroll_attempts = MAX_SCROLL_ATTEMPTS
    /\ ~f_end_of_list
    /\ f_current_count # f_read_before
    /\ f_current_count = feed_places
    /\ f_current_count >= MAX_SCROLL_ATTEMPTS

====
